---- MODULE Spec2Model ----
(***************************************************************************)
(* A model of module_arp.py (knokbak/netkit): the Ethernet/ARP frame codec *)
(* (parse_arp_frame, transmit_arp_request_ipv4), the passive monitor, the  *)
(* reply listener thread and the active prober.                            *)
(*                                                                         *)
(* Bytes are integers 0..255, a frame is a sequence of bytes, and a text   *)
(* string is a sequence of one-character strings, so that formatting and   *)
(* parsing of addresses are computed, digit by digit.                      *)
(***************************************************************************)
EXTENDS Integers, Sequences, FiniteSets, TLC

VARIABLES
    utilsOnShort,   \* what the utils formatters do with an input of the wrong length
    frame,          \* codec: the bytes handed to parse_arp_frame
    call,           \* codec: the arguments of transmit_arp_request_ipv4, or NoCall
    result,         \* codec: what parse_arp_frame returned or raised, or NoResult
    cpc,            \* codec: "idle", "have" (a frame is at hand), "done" (it was parsed)
    pc,             \* main thread: where main, monitor or probe stands
    exc,            \* main thread: the exception that left monitor or probe, or NoExc
    intrAt,         \* the value of pc when the user interrupt arrived, or "no"
    now,            \* the last reading of time.time()
    msock,          \* monitor: its socket, "none", "open" or "closed"
    seen_hosts,     \* monitor: protocol address -> [mac, count, last_seen]
    mrx,            \* monitor: history of the frames received and when
    start_time,     \* monitor: the reading of time.time() before the loop
    mreport,        \* monitor: what it printed when it was stopped, or NoReport
    range,          \* probe: the range typed at the first prompt
    hosts,          \* probe: the list of target addresses
    tx_mac_address, \* probe: the hardware address to transmit from
    sent,           \* probe: history of the frames sent
    ssock,          \* probe: the send socket of the transmit call
    progress,       \* probe: the (count, total) pairs shown on the progress bar
    confirmed,      \* probe: "unasked", or the answer to the confirmation, "yes" or "no"
    should_stop,    \* listener: the stop event
    responses,      \* listener: the result list
    tpc,            \* listener thread: "none", "start", "loop", "recv", "exited", "died"
    texc,           \* listener thread: the exception that ended it, or NoExc
    lsock,          \* listener: its socket, "none", "open" or "finalized"
    lq,             \* listener: frames queued on its socket
    lrx,            \* listener: history of the frames its recv returned
    arrivals,       \* listener: number of frames that have arrived on its socket
    stop_result     \* listener: what stop() returned last, or NotReturned

codecVars == <<frame, call, result, cpc>>
mainVars == <<pc, exc, intrAt>>
monVars == <<msock, seen_hosts, mrx, start_time, mreport>>
probeVars == <<range, hosts, tx_mac_address, sent, ssock, progress, confirmed>>
listenVars == <<should_stop, responses, tpc, texc, lsock, lq, lrx, arrivals, stop_result>>

vars == <<utilsOnShort, codecVars, mainVars, now, monVars, probeVars, listenVars>>

----------------------------------------------------------------------------
(* Python's bytes and int primitives                                       *)

Min(a, b) == IF a < b THEN a ELSE b

\* s[a:b] of Python: 0-based, half-open, clipped to the length of s.
Slice(s, a, b) ==
    IF a >= Min(b, Len(s)) THEN <<>> ELSE SubSeq(s, a + 1, Min(b, Len(s)))

\* io.BytesIO.read(n) at position pos: at most n bytes, fewer at the end.
StreamRead(s, pos, n) == Slice(s, pos, pos + n)

\* int.from_bytes(b, 'big'); the empty sequence gives 0.
RECURSIVE FromBytes(_)
FromBytes(b) ==
    IF b = <<>> THEN 0
    ELSE 256 * FromBytes(SubSeq(b, 1, Len(b) - 1)) + b[Len(b)]

\* bytes.fromhex of a 16-bit literal such as '0806'.
Hex16(n) == <<n \div 256, n % 256>>

----------------------------------------------------------------------------
(* The address <-> text conversions of utils and of ipaddress              *)

HexDigit == <<"0", "1", "2", "3", "4", "5", "6", "7",
              "8", "9", "a", "b", "c", "d", "e", "f">>

HexVal(c) == (CHOOSE i \in 1..16 : HexDigit[i] = c) - 1

HexPair(b) == <<HexDigit[(b \div 16) + 1], HexDigit[(b % 16) + 1]>>

\* Join the sequence of strings parts with the separator sep.
RECURSIVE Join(_, _)
Join(parts, sep) ==
    IF parts = <<>> THEN <<>>
    ELSE IF Len(parts) = 1 THEN parts[1]
    ELSE parts[1] \o <<sep>> \o Join(Tail(parts), sep)

\* Split the string s at every occurrence of sep.
RECURSIVE SplitAt(_, _, _)
SplitAt(s, sep, cur) ==
    IF s = <<>> THEN <<cur>>
    ELSE IF Head(s) = sep THEN <<cur>> \o SplitAt(Tail(s), sep, <<>>)
    ELSE SplitAt(Tail(s), sep, Append(cur, Head(s)))

Split(s, sep) == SplitAt(s, sep, <<>>)

\* str(n) for a natural number n.
RECURSIVE DecStr(_)
DecStr(n) ==
    IF n < 10 THEN <<HexDigit[n + 1]>>
    ELSE DecStr(n \div 10) \o <<HexDigit[(n % 10) + 1]>>

IsDecDigit(c) == \E i \in 1..10 : HexDigit[i] = c

RECURSIVE DecVal(_)
DecVal(s) ==
    IF s = <<>> THEN 0
    ELSE 10 * DecVal(SubSeq(s, 1, Len(s) - 1)) + HexVal(s[Len(s)])

\* utils.mac_bytes_to_str: two hex digits per byte, joined by ':'.
mac_bytes_to_str(b) == Join([i \in 1..Len(b) |-> HexPair(b[i])], ":")

\* utils.mac_str_to_bytes: the inverse reading of 'xx:xx:xx:xx:xx:xx'.
mac_str_to_bytes(s) ==
    LET parts == Split(s, ":")
    IN  [i \in 1..Len(parts) |-> 16 * HexVal(parts[i][1]) + HexVal(parts[i][2])]

\* utils.ipv4_bytes_to_str: dotted decimal.
ipv4_bytes_to_str(b) == Join([i \in 1..Len(b) |-> DecStr(b[i])], ".")

\* utils.ipv6_bytes_to_str: groups of two bytes as four hex digits, joined by ':'.
ipv6_bytes_to_str(b) ==
    Join([i \in 1..(Len(b) \div 2) |-> HexPair(b[2 * i - 1]) \o HexPair(b[2 * i])], ":")

\* ipaddress.IPv4Address(s) accepts s: four decimal octets, each of one to
\* three digits, at most 255, without a leading zero.
IsIPv4Str(s) ==
    LET parts == Split(s, ".")
    IN  /\ Len(parts) = 4
        /\ \A i \in 1..4 :
              /\ Len(parts[i]) \in 1..3
              /\ \A j \in 1..Len(parts[i]) : IsDecDigit(parts[i][j])
              /\ (Len(parts[i]) > 1 => parts[i][1] # "0")
              /\ DecVal(parts[i]) <= 255

\* ipaddress.IPv4Address(s).packed
IPv4Packed(s) ==
    LET parts == Split(s, ".")
    IN  [i \in 1..4 |-> DecVal(parts[i])]

----------------------------------------------------------------------------
(* parse_arp_frame                                                         *)

\* The formatters of utils are written for 6, 4 and 16 bytes. What they do
\* with another length is not fixed by this module: they format what they
\* get ("formats"), raise ValueError, or raise another exception.
UtilsModes == {"formats", "ValueError", "OtherError"}

BadLen(b, n) == Len(b) # n /\ utilsOnShort # "formats"

Raise(kind, line) == [kind |-> kind, line |-> line]

UtilsRaise(line) ==
    Raise(IF utilsOnShort = "ValueError" THEN "ValueError" ELSE "OtherError", line)

\* line 38: the hardware type is Ethernet.
HTypeIsEthernetLowByte(htype) == htype % 256 = 1
HTypeIsEthernet(htype) == htype = 1

\* line 57: the protocol address length disagrees with the protocol type.
PLenTooLong(plen, addr_len) == plen > addr_len
PLenMismatch(plen, addr_len) == plen # addr_len

parse_arp_frame(f) ==
    LET eth_header == StreamRead(f, 0, 14)
        arp_header == StreamRead(f, Len(eth_header), 8)
        ARP_HTYPE  == FromBytes(Slice(arp_header, 0, 2))
        ARP_PTYPE  == FromBytes(Slice(arp_header, 2, 4))
        ARP_HLEN   == arp_header[5]
        ARP_PLEN   == arp_header[6]
        ARP_OPER   == FromBytes(Slice(arp_header, 6, 8))
        IP_PRO_VER == IF ARP_PTYPE = 2048 THEN 4 ELSE 6
        IP_ADDR_LEN == IF ARP_PTYPE = 2048 THEN 4 ELSE 16
        pos1       == Len(eth_header) + Len(arp_header)
        arp_sender_addresses == StreamRead(f, pos1, 6 + IP_ADDR_LEN)
        pos2       == pos1 + Len(arp_sender_addresses)
        arp_target_addresses == StreamRead(f, pos2, 6 + IP_ADDR_LEN)
        spa_bytes  == Slice(arp_sender_addresses, 6, 6 + IP_ADDR_LEN)
        tpa_bytes  == Slice(arp_target_addresses, 6, 6 + IP_ADDR_LEN)
    IN  IF BadLen(Slice(eth_header, 0, 6), 6) THEN UtilsRaise(26)
        ELSE IF BadLen(Slice(eth_header, 6, 12), 6) THEN UtilsRaise(27)
        ELSE IF Len(arp_header) <= 4 THEN Raise("IndexError", 34)
        ELSE IF Len(arp_header) <= 5 THEN Raise("IndexError", 35)
        ELSE IF ~HTypeIsEthernet(ARP_HTYPE) THEN Raise("ValueError", 40)
        ELSE IF ARP_HLEN # 6 THEN Raise("ValueError", 44)
        ELSE IF ARP_PTYPE \notin {2048, 34525} THEN Raise("ValueError", 55)
        ELSE IF PLenMismatch(ARP_PLEN, IP_ADDR_LEN) THEN Raise("ValueError", 59)
        ELSE IF BadLen(Slice(arp_sender_addresses, 0, 6), 6) THEN UtilsRaise(63)
        ELSE IF BadLen(Slice(arp_target_addresses, 0, 6), 6) THEN UtilsRaise(67)
        ELSE IF BadLen(spa_bytes, IP_ADDR_LEN)
             THEN UtilsRaise(IF IP_PRO_VER = 4 THEN 71 ELSE 74)
        ELSE IF BadLen(tpa_bytes, IP_ADDR_LEN)
             THEN UtilsRaise(IF IP_PRO_VER = 4 THEN 72 ELSE 75)
        ELSE [kind             |-> "ok",
              ETH_DEST_MAC     |-> mac_bytes_to_str(Slice(eth_header, 0, 6)),
              ETH_SRC_MAC      |-> mac_bytes_to_str(Slice(eth_header, 6, 12)),
              ETH_TYPE         |-> FromBytes(Slice(eth_header, 12, 14)),
              ARP_HTYPE        |-> ARP_HTYPE,
              ARP_PTYPE        |-> ARP_PTYPE,
              ARP_HLEN         |-> ARP_HLEN,
              ARP_PLEN         |-> ARP_PLEN,
              ARP_OPER         |-> ARP_OPER,
              IP_PRO_VER       |-> IP_PRO_VER,
              IP_ADDR_LEN      |-> IP_ADDR_LEN,
              ARP_SHA_MAC_ADDR |-> mac_bytes_to_str(Slice(arp_sender_addresses, 0, 6)),
              ARP_SPA_PRO_ADDR |-> IF IP_PRO_VER = 4 THEN ipv4_bytes_to_str(spa_bytes)
                                   ELSE ipv6_bytes_to_str(spa_bytes),
              ARP_THA_MAC_ADDR |-> mac_bytes_to_str(Slice(arp_target_addresses, 0, 6)),
              ARP_TPA_PRO_ADDR |-> IF IP_PRO_VER = 4 THEN ipv4_bytes_to_str(tpa_bytes)
                                   ELSE ipv6_bytes_to_str(tpa_bytes)]

----------------------------------------------------------------------------
(* transmit_arp_request_ipv4: the frame it builds                          *)

BroadcastMacStr == <<"f", "f", ":", "f", "f", ":", "f", "f", ":",
                     "f", "f", ":", "f", "f", ":", "f", "f">>

\* line 148: the sender block, then the target block.
ArpPayloadSwapped(SHA, SPA, THA, TPA) == SHA \o TPA \o THA \o SPA
ArpPayload(SHA, SPA, THA, TPA) == SHA \o SPA \o THA \o TPA

BuildRequestFrame(target_ip, source_mac, source_ip) ==
    LET eth_header == mac_str_to_bytes(BroadcastMacStr)
                        \o mac_str_to_bytes(source_mac) \o Hex16(2054)
        HTYPE == Hex16(1)
        PTYPE == Hex16(2048)
        HLEN  == <<6>>
        PLEN  == <<4>>
        OPER  == Hex16(1)
        arp_header == HTYPE \o PTYPE \o HLEN \o PLEN \o OPER
        SHA == mac_str_to_bytes(source_mac)
        SPA == IPv4Packed(source_ip)
        THA == <<0, 0, 0, 0, 0, 0>>
        TPA == IPv4Packed(target_ip)
        arp_payload == ArpPayload(SHA, SPA, THA, TPA)
    IN  eth_header \o arp_header \o arp_payload

----------------------------------------------------------------------------
(* The frames and addresses the checks range over                          *)

MacA == <<2, 0, 0, 0, 0, 1>>
MacB == <<222, 173, 190, 239, 0, 255>>
MacBroadcast == <<255, 255, 255, 255, 255, 255>>
MacZero == <<0, 0, 0, 0, 0, 0>>

Ip4A == <<10, 0, 0, 1>>
Ip4B == <<192, 168, 1, 254>>
Ip4Zero == <<0, 0, 0, 0>>
Ip6A == <<254, 128, 0, 0, 0, 0, 0, 0, 0, 0, 0, 0, 0, 0, 0, 1>>
Ip6B == <<32, 1, 13, 184, 0, 0, 0, 0, 0, 0, 0, 0, 0, 0, 0, 2>>

\* A frame laid out as on the wire from the given field values.
MkFrame(dst, src, htype, ptype, hlen, plen, oper, sha, spa, tha, tpa) ==
    dst \o src \o Hex16(2054) \o Hex16(htype) \o Hex16(ptype) \o <<hlen, plen>>
        \o Hex16(oper) \o sha \o spa \o tha \o tpa

Prefixes(f) == {SubSeq(f, 1, n) : n \in 0..Len(f)}

HTypes == {1, 6, 257}
PTypes == {2048, 34525, 2054}
HLens == {6, 8}
PLens == {4, 16}
Opers == {1, 2, 3}

FullFrames ==
    {MkFrame(dst, MacB, ht, pt, hl, pl, op, MacB, pa[1], MacZero, pa[2]) :
        dst \in {MacA, MacBroadcast}, ht \in HTypes, pt \in PTypes, hl \in HLens,
        pl \in PLens, op \in Opers, pa \in {<<Ip4A, Ip4B>>, <<Ip6A, Ip6B>>}}

\* Every frame above, whole and cut at every length.
CodecFrames == UNION {Prefixes(f) : f \in FullFrames}

MacStrs == {mac_bytes_to_str(m) : m \in {MacA, MacB, MacBroadcast, MacZero}}
Ip4Strs == {ipv4_bytes_to_str(a) : a \in {Ip4A, Ip4B, Ip4Zero}}

----------------------------------------------------------------------------
(* The codec on its own: a frame comes from the wire or from the encoder,  *)
(* and is decoded.                                                         *)

NoExc == [kind |-> "none"]
NotReturned == [returned |-> FALSE, value |-> <<>>]
EmptyMap == [a \in {} |-> 0]
NoReport == [printed |-> FALSE]

\* The state before main() has offered its menu.
SessionIdle ==
    /\ pc = "menu" /\ exc = NoExc /\ intrAt = "no" /\ now = 0
    /\ msock = "none" /\ seen_hosts = EmptyMap /\ mrx = <<>>
    /\ start_time = 0 /\ mreport = NoReport
    /\ range = <<>> /\ hosts = <<>> /\ tx_mac_address = <<>>
    /\ sent = <<>> /\ ssock = "none" /\ progress = <<>> /\ confirmed = "unasked"
    /\ should_stop = FALSE /\ responses = <<>> /\ tpc = "none" /\ texc = NoExc
    /\ lsock = "none" /\ lq = <<>> /\ lrx = <<>> /\ arrivals = 0
    /\ stop_result = NotReturned

sessionVars == <<mainVars, now, monVars, probeVars, listenVars>>

NoCall == [target_ip |-> <<>>, source_mac |-> <<>>, source_ip |-> <<>>]
NoResult == [kind |-> "none"]

InitCodec ==
    /\ utilsOnShort \in UtilsModes
    /\ frame = <<>>
    /\ call = NoCall
    /\ result = NoResult
    /\ cpc = "idle"
    /\ SessionIdle

\* A frame arrives from the wire.
CodecReceive ==
    /\ cpc = "idle"
    /\ \E f \in CodecFrames : frame' = f
    /\ cpc' = "have"
    /\ UNCHANGED <<utilsOnShort, call, result, sessionVars>>

\* transmit_arp_request_ipv4 builds a frame.
CodecEncode ==
    /\ cpc = "idle"
    /\ \E t \in Ip4Strs, m \in MacStrs, s \in Ip4Strs :
          /\ call' = [target_ip |-> t, source_mac |-> m, source_ip |-> s]
          /\ frame' = BuildRequestFrame(t, m, s)
    /\ cpc' = "have"
    /\ UNCHANGED <<utilsOnShort, result, sessionVars>>

\* parse_arp_frame is applied to the frame.
CodecDecode ==
    /\ cpc = "have"
    /\ result' = parse_arp_frame(frame)
    /\ cpc' = "done"
    /\ UNCHANGED <<utilsOnShort, frame, call, sessionVars>>

NextCodec == CodecReceive \/ CodecEncode \/ CodecDecode

SpecCodec == InitCodec /\ [][NextCodec]_vars

----------------------------------------------------------------------------
(* Claims about the codec, checked under SpecCodec                         *)

\* The fields of a frame as laid out on the wire.
WireHType(f) == FromBytes(Slice(f, 14, 16))
WirePType(f) == FromBytes(Slice(f, 16, 18))
WireHLen(f) == f[19]
WirePLen(f) == f[20]

\* The frame holds every header field the decoder indexes (up to PLEN).
HasHeaderFields(f) == Len(f) >= 20

\* 14 + 8 + 2*(6+N) for the frame's protocol type (N = 4 unless it is 0x86DD).
RequiredLen(f) == IF Len(f) >= 18 /\ WirePType(f) = 34525 THEN 66 ELSE 42

FromWire == cpc = "done" /\ call = NoCall
Encoded == cpc = "done" /\ call # NoCall

\* C7: every frame shorter than 14 + 8 + 2*(6+N) bytes is rejected with the
\* decode error (ValueError, the skip-this-frame signal), never decoded and
\* never failed in another way. Stated with the utils formatters at their
\* most favourable, rejecting a short input with ValueError themselves.
C7_ShortFrameIsDecodeError ==
    (FromWire /\ utilsOnShort = "ValueError" /\ Len(frame) < RequiredLen(frame))
        => result.kind = "ValueError"

\* C8: a frame whose hardware-type field is not 1 is rejected by the
\* hardware-type check (line 40), whatever protocol type, address lengths,
\* operation and address bytes it carries.
C8_HTypeRejectedFirst ==
    (FromWire /\ HasHeaderFields(frame) /\ WireHType(frame) # 1)
        => result = Raise("ValueError", 40)

\* C8's case: a frame that the hardware-length, protocol-type and
\* protocol-length checks would each reject too, rejected at line 40.
C8_Witness ==
    /\ FromWire /\ HasHeaderFields(frame)
    /\ WireHType(frame) = 6 /\ WireHLen(frame) # 6
    /\ WirePType(frame) = 2054 /\ WirePLen(frame) = 16
    /\ Len(frame) = 42
    /\ result = Raise("ValueError", 40)

PLenDisagrees(f) ==
    \/ WirePType(f) = 2048 /\ WirePLen(f) # 4
    \/ WirePType(f) = 34525 /\ WirePLen(f) # 16

\* C9 as stated: a frame with protocol type 0x0800 and protocol address
\* length other than 4 (0x86DD, other than 16) always yields the
\* LengthMismatch rejection (raised at line 44 or line 59).
C9_AlwaysLengthMismatch ==
    (FromWire /\ HasHeaderFields(frame) /\ PLenDisagrees(frame))
        => (result.kind = "ValueError" /\ result.line \in {44, 59})

\* C9 as amended: such a frame is never decoded; it is rejected as
\* LengthMismatch (line 44 for the hardware length, else line 59) when its
\* hardware type is 1, and by the hardware-type check (line 40) otherwise.
C9_LengthMismatchAfterHType ==
    (FromWire /\ HasHeaderFields(frame) /\ PLenDisagrees(frame))
        => result = Raise("ValueError",
                          IF WireHType(frame) # 1 THEN 40
                          ELSE IF WireHLen(frame) # 6 THEN 44 ELSE 59)

\* C9's case: hardware type 1, hardware length 6, IPv6 protocol type with
\* length 4, rejected at line 59.
C9_Witness ==
    /\ FromWire /\ HasHeaderFields(frame)
    /\ WireHType(frame) = 1 /\ WireHLen(frame) = 6
    /\ WirePType(frame) = 34525 /\ WirePLen(frame) = 4
    /\ result = Raise("ValueError", 59)

\* C10: decoding the frame transmit_arp_request_ipv4 builds gives back the
\* inputs: source and sender hardware address, sender and target protocol
\* address, operation 1, broadcast destination, all-zero target hardware
\* address, IPv4 with width 4.
C10_RequestRoundTrip ==
    Encoded =>
        /\ result.kind = "ok"
        /\ result.ETH_SRC_MAC = call.source_mac
        /\ result.ARP_SHA_MAC_ADDR = call.source_mac
        /\ result.ARP_SPA_PRO_ADDR = call.source_ip
        /\ result.ARP_TPA_PRO_ADDR = call.target_ip
        /\ result.ARP_OPER = 1
        /\ result.ETH_DEST_MAC = BroadcastMacStr
        /\ result.ARP_THA_MAC_ADDR = mac_bytes_to_str(MacZero)
        /\ result.IP_PRO_VER = 4
        /\ result.IP_ADDR_LEN = 4
        /\ result.ARP_HTYPE = 1 /\ result.ARP_PTYPE = 2048
        /\ result.ARP_HLEN = 6 /\ result.ARP_PLEN = 4
        /\ result.ETH_TYPE = 2054
        /\ Len(frame) = 42

\* C10's case: a request from de:ad:be:ef:00:ff at 10.0.0.1 for
\* 192.168.1.254 was built and decoded.
C10_Witness ==
    /\ Encoded
    /\ call.source_mac = mac_bytes_to_str(MacB)
    /\ call.source_ip = ipv4_bytes_to_str(Ip4A)
    /\ call.target_ip = ipv4_bytes_to_str(Ip4B)
    /\ result.kind = "ok"
    /\ result.ARP_TPA_PRO_ADDR = <<"1", "9", "2", ".", "1", "6", "8", ".", "1", ".", "2", "5", "4">>

----------------------------------------------------------------------------
(* A session: main() offers the menu, and the user runs the monitor or a   *)
(* probe. The user may press Ctrl+C once, at any point.                    *)

MaxRecv == 2        \* frames the monitor receives in a session
MaxArrivals == 2    \* frames that arrive on the listener's socket

KeyboardInterrupt == [kind |-> "KeyboardInterrupt"]

\* time.time() is read: the clock has not gone back since the last reading.
ClockReadings == {now, now + 1}

\* Frames the monitor sees: replies, a repeated sender with another hardware
\* address, a request, another operation, and frames that do not decode
\* (hardware type, cut in the ARP header, cut in the sender block).
ReplyFrame(dst, sha, spa) ==
    MkFrame(dst, sha, 1, 2048, 6, 4, 2, sha, spa, dst, Ip4Zero)

MonFrames ==
    { ReplyFrame(MacA, MacB, Ip4A),
      ReplyFrame(MacA, MacA, Ip4A),
      ReplyFrame(MacBroadcast, MacB, Ip4B),
      MkFrame(MacBroadcast, MacB, 1, 2048, 6, 4, 1, MacB, Ip4A, MacZero, Ip4B),
      MkFrame(MacA, MacB, 1, 2048, 6, 4, 3, MacB, Ip4A, MacA, Ip4B),
      MkFrame(MacA, MacB, 6, 2048, 6, 4, 2, MacB, Ip4B, MacA, Ip4A),
      SubSeq(ReplyFrame(MacA, MacB, Ip4B), 1, 18),
      SubSeq(ReplyFrame(MacA, MacB, Ip4B), 1, 30) }

InitSession ==
    /\ utilsOnShort \in UtilsModes
    /\ frame = <<>> /\ call = NoCall /\ result = NoResult /\ cpc = "idle"
    /\ SessionIdle

\* prompt_menu (lines 272-275): the user picks the monitor or the probe.
Menu ==
    /\ pc = "menu"
    /\ pc' \in {"monitor", "probe"}
    /\ UNCHANGED <<utilsOnShort, codecVars, exc, intrAt, now, monVars, probeVars,
                   listenVars>>

----------------------------------------------------------------------------
(* monitor                                                                 *)

\* lines 100-111: the entry of a reply's sender after the reply.
UpsertAlone(seen, addr, mac, t) ==
    [a \in {addr} |->
        [mac |-> mac,
         count |-> IF addr \in DOMAIN seen THEN seen[addr].count + 1 ELSE 1,
         last_seen |-> t]]
UpsertResetsCount(seen, addr, mac, t) ==
    [a \in DOMAIN seen \cup {addr} |->
        IF a # addr THEN seen[a]
        ELSE [mac |-> mac, count |-> 1, last_seen |-> t]]
Upsert(seen, addr, mac, t) ==
    [a \in DOMAIN seen \cup {addr} |->
        IF a # addr THEN seen[a]
        ELSE IF addr \in DOMAIN seen
             THEN [mac |-> mac, count |-> seen[addr].count + 1, last_seen |-> t]
             ELSE [mac |-> mac, count |-> 1, last_seen |-> t]]

\* lines 81-82: the socket is opened and bound.
MonitorOpen ==
    /\ pc = "monitor"
    /\ msock' = "open"
    /\ pc' = "mon_start"
    /\ UNCHANGED <<utilsOnShort, codecVars, exc, intrAt, now, seen_hosts, mrx,
                   start_time, mreport, probeVars, listenVars>>

\* lines 83-87: the map is empty, the clock is read, the try block is entered.
MonitorEnterTry ==
    /\ pc = "mon_start"
    /\ seen_hosts' = EmptyMap
    /\ start_time' = now
    /\ pc' = "mon_loop"
    /\ UNCHANGED <<utilsOnShort, codecVars, exc, intrAt, now, msock, mrx, mreport,
                   probeVars, listenVars>>

\* lines 88-113: one turn of the loop, from recv to the end of the match.
MonitorRecv ==
    /\ pc = "mon_loop"
    /\ Len(mrx) < MaxRecv
    /\ \E f \in MonFrames :
          LET r == parse_arp_frame(f)
          IN  \E t \in ClockReadings :
                /\ mrx' = Append(mrx, [frame |-> f, at |-> t])
                /\ now' = t
                /\ IF r.kind = "ValueError"
                   THEN UNCHANGED <<pc, exc, seen_hosts>>
                   ELSE IF r.kind # "ok"
                   THEN /\ pc' = "raised"
                        /\ exc' = r
                        /\ UNCHANGED seen_hosts
                   ELSE IF r.ARP_OPER = 2
                   THEN /\ seen_hosts' = Upsert(seen_hosts, r.ARP_SPA_PRO_ADDR,
                                                r.ARP_SHA_MAC_ADDR, t)
                        /\ UNCHANGED <<pc, exc>>
                   ELSE UNCHANGED <<pc, exc, seen_hosts>>
    /\ UNCHANGED <<utilsOnShort, codecVars, intrAt, msock, start_time, mreport,
                   probeVars, listenVars>>

\* lines 116-120: the summary line and one table row per entry of the map.
MonitorReport(seen, t) ==
    [printed |-> TRUE,
     hosts   |-> Cardinality(DOMAIN seen),
     seconds |-> t - start_time,
     rows    |-> [a \in DOMAIN seen |->
                    [mac |-> seen[a].mac, count |-> seen[a].count,
                     ago |-> t - seen[a].last_seen]]]

\* lines 114-121: Ctrl+C in the loop; the socket is closed, the table is
\* printed and KeyboardInterrupt is raised again.
MonitorInterrupt ==
    /\ pc = "mon_loop"
    /\ intrAt = "no"
    /\ intrAt' = pc
    /\ msock' = "closed"
    /\ \E t \in ClockReadings :
          /\ now' = t
          /\ mreport' = MonitorReport(seen_hosts, t)
    /\ pc' = "raised"
    /\ exc' = KeyboardInterrupt
    /\ UNCHANGED <<utilsOnShort, codecVars, seen_hosts, mrx, start_time, probeVars,
                   listenVars>>

\* Ctrl+C before line 87: monitor is not yet in its try block, so
\* KeyboardInterrupt leaves it at once with whatever it holds.
MonitorInterruptBeforeTry ==
    /\ pc \in {"monitor", "mon_start"}
    /\ intrAt = "no"
    /\ intrAt' = pc
    /\ pc' = "raised"
    /\ exc' = KeyboardInterrupt
    /\ UNCHANGED <<utilsOnShort, codecVars, now, monVars, probeVars, listenVars>>

----------------------------------------------------------------------------
(* probe: the prompts                                                      *)

LowerChar(c) ==
    CASE c = "A" -> "a" [] c = "B" -> "b" [] c = "C" -> "c"
      [] c = "D" -> "d" [] c = "E" -> "e" [] c = "F" -> "f"
      [] c = "N" -> "n" [] c = "Y" -> "y"
      [] OTHER -> c

\* str.lower()
Lower(s) == [i \in 1..Len(s) |-> LowerChar(s[i])]

RandomWord == <<"r", "a", "n", "d", "o", "m">>

\* What the user may type at the MAC prompt: nothing, "random", or an
\* address, here in upper case.
TxInputs ==
    { <<>>, RandomWord,
      <<"D", "E", ":", "A", "D", ":", "B", "E", ":", "E", "F", ":", "0", "0", ":", "F", "F">> }

\* utils.get_interface_mac_address(interface)
default_mac_address == mac_bytes_to_str(MacA)

\* utils.generate_random_mac_address() may return any of these.
RandomMacs == {mac_bytes_to_str(MacB)}

----------------------------------------------------------------------------
(* probe: from the typed range to the list of hosts (lines 198-226)        *)

\* A group of an IPv6 address: one to four hex digits, in either case.
IsHexGroup(g) ==
    /\ Len(g) \in 1..4
    /\ \A j \in 1..Len(g) : \E i \in 1..16 : HexDigit[i] = LowerChar(g[j])

RECURSIVE HexNum(_)
HexNum(g) ==
    IF g = <<>> THEN 0
    ELSE 16 * HexNum(SubSeq(g, 1, Len(g) - 1)) + HexVal(LowerChar(g[Len(g)]))

\* The positions of an empty group inside the text, that is of "::".
Gaps(parts) == {i \in 2..(Len(parts) - 1) : parts[i] = <<>>}

\* ipaddress.IPv6Address(s) accepts s: eight groups, or fewer with one "::".
IsIPv6Str(s) ==
    LET parts == Split(s, ":")
        n == Len(parts)
        groups == {i \in 1..n : parts[i] # <<>>}
    IN  /\ n \in 3..9
        /\ Cardinality(Gaps(parts)) <= 1
        /\ (parts[1] = <<>> => 2 \in Gaps(parts))
        /\ (parts[n] = <<>> => (n - 1) \in Gaps(parts))
        /\ \A i \in groups : IsHexGroup(parts[i])
        /\ IF Gaps(parts) = {} THEN n = 8 ELSE Cardinality(groups) <= 7

\* ipaddress.IPv6Address(s).packed: "::" stands for the groups left out.
IPv6Packed(s) ==
    LET parts == Split(s, ":")
        n == Len(parts)
        gap == IF Gaps(parts) = {} THEN n + 1 ELSE CHOOSE i \in Gaps(parts) : TRUE
        hi == SelectSeq(SubSeq(parts, 1, Min(gap, n)), LAMBDA g : g # <<>>)
        lo == SelectSeq(SubSeq(parts, gap + 1, n), LAMBDA g : g # <<>>)
        group(k) == IF k <= Len(hi) THEN HexNum(hi[k])
                    ELSE IF k > 8 - Len(lo) THEN HexNum(lo[k - (8 - Len(lo))])
                    ELSE 0
    IN  [i \in 1..16 |-> IF i % 2 = 1 THEN group((i + 1) \div 2) \div 256
                         ELSE group(i \div 2) % 256]

\* '%x' of a group.
RECURSIVE HexStr(_)
HexStr(n) ==
    IF n < 16 THEN <<HexDigit[n + 1]>>
    ELSE HexStr(n \div 16) \o <<HexDigit[(n % 16) + 1]>>

\* The number of zero groups in a row from position i on.
RECURSIVE ZeroRun(_, _)
ZeroRun(groups, i) ==
    IF i > Len(groups) \/ groups[i] # 0 THEN 0 ELSE 1 + ZeroRun(groups, i + 1)

\* str(ipaddress.IPv6Address): the first longest run of two or more zero
\* groups is written "::", the other groups without leading zeros.
IPv6Str(packed) ==
    LET groups == [k \in 1..8 |-> 256 * packed[2 * k - 1] + packed[2 * k]]
        best == CHOOSE i \in 1..8 :
                    /\ \A j \in 1..8 : ZeroRun(groups, j) <= ZeroRun(groups, i)
                    /\ \A j \in 1..(i - 1) : ZeroRun(groups, j) < ZeroRun(groups, i)
        run == ZeroRun(groups, best)
        text(a, b) == [k \in 1..(b - a + 1) |-> HexStr(groups[a + k - 1])]
    IN  IF run <= 1 THEN Join(text(1, 8), ":")
        ELSE Join((IF best = 1 THEN <<<<>>>> ELSE <<>>)
                      \o text(1, best - 1) \o <<<<>>>> \o text(best + run, 8)
                      \o (IF best + run - 1 = 8 THEN <<<<>>>> ELSE <<>>), ":")

\* utils.determine_ip_version(address): 4 or 6; 0 stands for its ValueError.
determine_ip_version(address) ==
    IF IsIPv4Str(address) THEN 4 ELSE IF IsIPv6Str(address) THEN 6 ELSE 0

\* The prefix length after '/': decimal digits, at most the address width.
\* (The netmask spelling, 10.0.0.0/255.255.255.252, is not among the inputs.)
IsPrefixLen(text, maxlen) ==
    /\ text # <<>>
    /\ Len(text) <= 3
    /\ \A j \in 1..Len(text) : IsDecDigit(text[j])
    /\ DecVal(text) <= maxlen

RECURSIVE Pow2(_)
Pow2(n) == IF n = 0 THEN 1 ELSE 2 * Pow2(n - 1)

\* How many of the lowest n bits of the address lie in its byte i.
HostBitsIn(packed, i, n) ==
    LET above == 8 * (Len(packed) - i)
    IN  IF n <= above THEN 0 ELSE Min(n - above, 8)

\* "has host bits set": the address is not the first of its network.
HostBitsSet(packed, n) ==
    \E i \in 1..Len(packed) : packed[i] % Pow2(HostBitsIn(packed, i, n)) # 0

\* ipaddress.IPv4Network(range) and IPv6Network(range) at lines 208 and 210,
\* after determine_ip_version at line 201. "reenter" is the branch of lines
\* 202-204; a ValueError of the constructors is raised outside that try.
ResolveNetwork(text) ==
    LET parts == Split(text, "/")
        version == determine_ip_version(parts[1])
        maxlen == IF version = 4 THEN 32 ELSE 128
        line == IF version = 4 THEN 208 ELSE 210
        packed == IF version = 4 THEN IPv4Packed(parts[1]) ELSE IPv6Packed(parts[1])
        prefixlen == IF Len(parts) = 1 THEN maxlen ELSE DecVal(parts[2])
    IN  IF version = 0 THEN [kind |-> "reenter"]
        ELSE IF Len(parts) > 2 THEN Raise("ValueError", line)
        ELSE IF Len(parts) = 2 /\ ~IsPrefixLen(parts[2], maxlen)
             THEN Raise("ValueError", line)
        ELSE IF HostBitsSet(packed, maxlen - prefixlen) THEN Raise("ValueError", line)
        ELSE [kind |-> "ok", version |-> version, network_address |-> packed,
              prefixlen |-> prefixlen, max_prefixlen |-> maxlen]

\* network.hosts(): the offsets from the network address of the addresses
\* it yields, for a network of n host bits. A single address and a
\* two-address network yield every address; a larger IPv4 network leaves
\* out its first and its last address, a larger IPv6 network its first.
HostOffsetsAll(version, n) == [k \in 1..Pow2(n) |-> k - 1]
HostOffsets(version, n) ==
    IF n <= 1 THEN [k \in 1..Pow2(n) |-> k - 1]
    ELSE IF version = 4 THEN [k \in 1..(Pow2(n) - 2) |-> k]
    ELSE [k \in 1..(Pow2(n) - 1) |-> k]

\* str(address)
AddressStr(version, packed) ==
    IF version = 4 THEN ipv4_bytes_to_str(packed) ELSE IPv6Str(packed)

\* The address at the given offset from the network address. The networks
\* resolved here have their host bits in the last byte.
AddressAt(network, offset) ==
    LET a == network.network_address
    IN  [i \in 1..Len(a) |-> IF i = Len(a) THEN a[i] + offset ELSE a[i]]

\* line 224: list(network.hosts()), each host as line 244 passes it on.
HostList(network) ==
    LET offsets == HostOffsets(network.version, network.max_prefixlen - network.prefixlen)
    IN  [k \in 1..Len(offsets) |->
            AddressStr(network.version, AddressAt(network, offsets[k]))]

\* line 226: random.shuffle leaves the list in any order of its elements.
Shuffles(list) ==
    {[i \in 1..Len(list) |-> list[p[i]]] : p \in Permutations(1..Len(list))}

Ip4Net == <<10, 0, 0, 0>>
Ip4C == <<10, 0, 0, 2>>

Slash(address, prefix) == address \o <<"/">> \o prefix

\* What the user may type at the range prompt of a session: a /30 network,
\* a single address, an address inside the /30 with the /30 prefix, a
\* prefix length of 33, an address with an octet of 256, an IPv6 address.
RangeInputs ==
    { Slash(ipv4_bytes_to_str(Ip4Net), DecStr(30)),
      ipv4_bytes_to_str(Ip4A),
      Slash(ipv4_bytes_to_str(Ip4A), DecStr(30)),
      Slash(ipv4_bytes_to_str(Ip4Net), DecStr(33)),
      <<"1", "0", ".", "0", ".", "0", ".", "2", "5", "6">>,
      <<"f", "e", "8", "0", ":", ":", "1">> }

\* What the user may type at the shuffle prompt.
ShuffleInputs == {<<>>, <<"N">>}

\* lines 198-229: the range, the MAC to transmit from, the shuffle. An
\* address that is not one is asked for again; a network the constructors
\* refuse ends probe with their ValueError. The wait time and the timeout
\* (lines 228-229) are typed as numbers.
ProbePromptOver(inputs) ==
    /\ pc = "probe"
    /\ \E typed_range \in inputs :
          LET network == ResolveNetwork(typed_range)
          IN  /\ range' = typed_range
              /\ IF network.kind = "reenter"
                 THEN /\ pc' = "probe"
                      /\ UNCHANGED <<exc, hosts, tx_mac_address>>
                 ELSE IF network.kind # "ok"
                 THEN /\ pc' = "raised"
                      /\ exc' = network
                      /\ UNCHANGED <<hosts, tx_mac_address>>
                 ELSE /\ \E typed \in TxInputs :
                            LET chosen == IF Lower(typed) = <<>> THEN default_mac_address
                                          ELSE Lower(typed)
                            IN  IF chosen = RandomWord
                                THEN tx_mac_address' \in RandomMacs
                                ELSE tx_mac_address' = chosen
                      /\ \E answer \in ShuffleInputs :
                            LET should_randomize ==
                                    (IF Lower(answer) = <<>> THEN <<"y">> ELSE Lower(answer))
                                        = <<"y">>
                            IN  hosts' \in IF should_randomize
                                           THEN Shuffles(HostList(network))
                                           ELSE {HostList(network)}
                      /\ pc' = "confirm"
                      /\ exc' = exc
    /\ UNCHANGED <<utilsOnShort, codecVars, intrAt, now, monVars, sent, ssock,
                   progress, confirmed, listenVars>>

ProbePrompt == ProbePromptOver(RangeInputs)

\* lines 231-232: where probe goes after the answer to the confirmation.
AfterConfirmIgnored(answer) == "listen"
AfterConfirm(answer) == IF answer = "yes" THEN "listen" ELSE "menu_again"

\* lines 231-232: confirm_network_transmit(); on "no", back to main().
Confirm ==
    /\ pc = "confirm"
    /\ \E answer \in {"yes", "no"} :
          /\ confirmed' = answer
          /\ pc' = AfterConfirm(answer)
    /\ UNCHANGED <<utilsOnShort, codecVars, exc, intrAt, now, monVars, range, hosts,
                   tx_mac_address, sent, ssock, progress, listenVars>>

----------------------------------------------------------------------------
(* listen_for_arp_reply_ipv4                                               *)

\* line 176: the frame is a reply.
IsReply(oper) == oper = 2

\* line 179: the frame is addressed to the hardware address we transmit from.
DestAny(dest, target_mac) == TRUE
DestMatches(dest, target_mac) == dest = target_mac

\* line 191: thr.join() returns once the thread has ended.
JoinWithoutWaiting == TRUE
JoinReady == tpc \in {"exited", "died"}

\* lines 155-156, 186-187, 194 (called at line 235): the list, the event,
\* the thread is started.
ListenStart ==
    /\ pc = "listen"
    /\ responses' = <<>>
    /\ should_stop' = FALSE
    /\ tpc' = "start"
    /\ pc' = "pre_try"
    /\ UNCHANGED <<utilsOnShort, codecVars, exc, intrAt, now, monVars, probeVars,
                   texc, lsock, lq, lrx, arrivals, stop_result>>

\* lines 159-160: the thread opens and binds its socket.
ThreadOpen ==
    /\ tpc = "start"
    /\ lsock' = "open"
    /\ tpc' = "loop"
    /\ UNCHANGED <<utilsOnShort, codecVars, mainVars, now, monVars, probeVars,
                   should_stop, responses, texc, lq, lrx, arrivals, stop_result>>

\* lines 161-163: the top of the loop; the thread returns when the event is
\* set. It does not close its socket.
ThreadCheckStop ==
    /\ tpc = "loop"
    /\ tpc' = IF should_stop THEN "exited" ELSE "recv"
    /\ UNCHANGED <<utilsOnShort, codecVars, mainVars, now, monVars, probeVars,
                   should_stop, responses, texc, lsock, lq, lrx, arrivals, stop_result>>

\* lines 166-169: the socket is non-blocking; with nothing to read, recv
\* raises BlockingIOError at once and the loop goes round again.
AfterEmptyReadBlocks == "recv"
AfterEmptyRead == "loop"

\* lines 165-183: a non-blocking recv and what follows it.
ThreadRecv ==
    /\ tpc = "recv"
    /\ IF lq = <<>>
       THEN /\ tpc' = AfterEmptyRead
            /\ UNCHANGED <<responses, texc, lq, lrx>>
       ELSE LET r == parse_arp_frame(Head(lq))
            IN  /\ lq' = Tail(lq)
                /\ lrx' = Append(lrx, Head(lq))
                /\ IF r.kind = "ValueError"
                   THEN /\ tpc' = "loop"
                        /\ UNCHANGED <<responses, texc>>
                   ELSE IF r.kind # "ok"
                   THEN /\ tpc' = "died"
                        /\ texc' = r
                        /\ UNCHANGED responses
                   ELSE /\ tpc' = "loop"
                        /\ texc' = texc
                        /\ responses' =
                              IF IsReply(r.ARP_OPER)
                                  /\ DestMatches(r.ETH_DEST_MAC, tx_mac_address)
                              THEN Append(responses,
                                          <<r.ARP_SPA_PRO_ADDR, r.ARP_SHA_MAC_ADDR>>)
                              ELSE responses
    /\ UNCHANGED <<utilsOnShort, codecVars, mainVars, now, monVars, probeVars,
                   should_stop, lsock, arrivals, stop_result>>

\* Frames the listener's socket may be handed.
ListenFrames ==
    { ReplyFrame(MacA, MacB, Ip4B),
      ReplyFrame(MacB, MacA, Ip4A),
      MkFrame(MacA, MacB, 1, 2048, 6, 4, 1, MacB, Ip4B, MacZero, Ip4A),
      SubSeq(ReplyFrame(MacA, MacB, Ip4B), 1, 18) }

\* The network delivers a frame to the listener's bound socket while the
\* thread is there to read it.
FrameArrives ==
    /\ lsock = "open"
    /\ tpc \in {"loop", "recv"}
    /\ arrivals < MaxArrivals
    /\ \E f \in ListenFrames : lq' = Append(lq, f)
    /\ arrivals' = arrivals + 1
    /\ UNCHANGED <<utilsOnShort, codecVars, mainVars, now, monVars, probeVars,
                   should_stop, responses, tpc, texc, lsock, lrx, stop_result>>

\* The thread function has ended and nothing refers to its socket any more:
\* the runtime closes the descriptor when it finalizes the object.
SocketFinalized ==
    /\ tpc \in {"exited", "died"}
    /\ lsock = "open"
    /\ lsock' = "finalized"
    /\ UNCHANGED <<utilsOnShort, codecVars, mainVars, now, monVars, probeVars,
                   should_stop, responses, tpc, texc, lq, lrx, arrivals, stop_result>>

----------------------------------------------------------------------------
(* probe: transmitting and collecting                                      *)

TryPcs == {"transmit", "sleep", "stop", "join", "report"}

\* lines 237-241: the try block is entered.
EnterTry ==
    /\ pc = "pre_try"
    /\ pc' = "transmit"
    /\ UNCHANGED <<utilsOnShort, codecVars, exc, intrAt, now, monVars, probeVars,
                   listenVars>>

\* hosts.index(host) of line 246, counted from 1.
IndexOf(list, x) == CHOOSE i \in 1..Len(list) :
                        list[i] = x /\ \A j \in 1..(i - 1) : list[j] # x

\* line 243: the for loop has gone through the list.
LoopEndsAfterFirst(n, list) == n >= 1
LoopEnds(n, list) == n = Len(list)

\* lines 243-247 and 125-151: one request is built and sent, the send socket
\* is closed, the progress bar is drawn; after the last one the loop ends.
Transmit ==
    /\ pc = "transmit"
    /\ Len(sent) < Len(hosts)
    /\ IsIPv4Str(hosts[Len(sent) + 1])
    /\ LET host == hosts[Len(sent) + 1]
           source_ip == ipv4_bytes_to_str(Ip4Zero)
       IN  /\ sent' = Append(sent, BuildRequestFrame(host, tx_mac_address, source_ip))
           /\ progress' = IF Len(hosts) > 1
                           THEN Append(progress, <<IndexOf(hosts, host), Len(hosts)>>)
                           ELSE progress
    /\ ssock' = "closed"
    /\ pc' = IF LoopEnds(Len(sent) + 1, hosts) THEN "sleep" ELSE "transmit"
    /\ UNCHANGED <<utilsOnShort, codecVars, exc, intrAt, now, monVars, range, hosts,
                   tx_mac_address, confirmed, listenVars>>

\* line 146: the host is not an IPv4 address, ipaddress.IPv4Address raises
\* AddressValueError (a ValueError) after the socket was opened at lines
\* 126-127; line 151 is not reached and probe has no handler for it.
TransmitBadTarget ==
    /\ pc = "transmit"
    /\ Len(sent) < Len(hosts)
    /\ ~IsIPv4Str(hosts[Len(sent) + 1])
    /\ ssock' = "open"
    /\ pc' = "raised"
    /\ exc' = Raise("ValueError", 146)
    /\ UNCHANGED <<utilsOnShort, codecVars, intrAt, now, monVars, range, hosts,
                   tx_mac_address, sent, progress, confirmed, listenVars>>

\* line 150: sock.send raises OSError; line 151 is not reached and probe
\* has no handler for it.
SendFails ==
    /\ pc = "transmit"
    /\ Len(sent) < Len(hosts)
    /\ IsIPv4Str(hosts[Len(sent) + 1])
    /\ ssock' = "open"
    /\ pc' = "raised"
    /\ exc' = [kind |-> "OSError", line |-> 150]
    /\ UNCHANGED <<utilsOnShort, codecVars, intrAt, now, monVars, range, hosts,
                   tx_mac_address, sent, progress, confirmed, listenVars>>

\* line 252: time.sleep(timeout)
Sleep ==
    /\ pc = "sleep"
    /\ pc' = "stop"
    /\ UNCHANGED <<utilsOnShort, codecVars, exc, intrAt, now, monVars, probeVars,
                   listenVars>>

\* line 253, entering stop(): line 190, should_stop.set()
StopSet ==
    /\ pc = "stop"
    /\ should_stop' = TRUE
    /\ pc' = "join"
    /\ UNCHANGED <<utilsOnShort, codecVars, exc, intrAt, now, monVars, probeVars,
                   responses, tpc, texc, lsock, lq, lrx, arrivals, stop_result>>

\* lines 191-192: thr.join(), then stop() returns the list.
StopJoin ==
    /\ pc = "join"
    /\ JoinReady
    /\ stop_result' = [returned |-> TRUE, value |-> responses]
    /\ pc' = "report"
    /\ UNCHANGED <<utilsOnShort, codecVars, exc, intrAt, now, monVars, probeVars,
                   should_stop, responses, tpc, texc, lsock, lq, lrx, arrivals>>

\* lines 255-260: the table of responses is printed.
Report ==
    /\ pc = "report"
    /\ pc' = "done"
    /\ UNCHANGED <<utilsOnShort, codecVars, exc, intrAt, now, monVars, probeVars,
                   listenVars>>

\* Ctrl+C in probe: inside the try block control passes to the handler at
\* line 261; before it, KeyboardInterrupt leaves probe at once.
Interrupt ==
    /\ intrAt = "no"
    /\ pc \in {"probe", "confirm", "listen", "pre_try"} \cup TryPcs
    /\ intrAt' = pc
    /\ IF pc \in TryPcs
       THEN pc' = "except_stop" /\ exc' = exc
       ELSE pc' = "raised" /\ exc' = KeyboardInterrupt
    /\ UNCHANGED <<utilsOnShort, codecVars, now, monVars, probeVars, listenVars>>

\* line 262, entering stop(): line 190
ExceptStop ==
    /\ pc = "except_stop"
    /\ should_stop' = TRUE
    /\ pc' = "except_join"
    /\ UNCHANGED <<utilsOnShort, codecVars, exc, intrAt, now, monVars, probeVars,
                   responses, tpc, texc, lsock, lq, lrx, arrivals, stop_result>>

\* lines 191-192 and 263-264: the join, then KeyboardInterrupt is raised again.
ExceptJoin ==
    /\ pc = "except_join"
    /\ JoinReady
    /\ stop_result' = [returned |-> TRUE, value |-> responses]
    /\ pc' = "raised"
    /\ exc' = KeyboardInterrupt
    /\ UNCHANGED <<utilsOnShort, codecVars, intrAt, now, monVars, probeVars,
                   should_stop, responses, tpc, texc, lsock, lq, lrx, arrivals>>

Next ==
    \/ Menu
    \/ MonitorOpen \/ MonitorEnterTry \/ MonitorRecv \/ MonitorInterrupt
    \/ MonitorInterruptBeforeTry
    \/ ProbePrompt \/ Confirm \/ ListenStart \/ EnterTry
    \/ Transmit \/ TransmitBadTarget \/ SendFails \/ Sleep \/ StopSet \/ StopJoin \/ Report
    \/ Interrupt \/ ExceptStop \/ ExceptJoin
    \/ ThreadOpen \/ ThreadCheckStop \/ ThreadRecv \/ FrameArrives
    \/ SocketFinalized

Spec == InitSession /\ [][Next]_vars

\* A probe on its own, from the confirmation on: the range was
\* 10.0.0.1 or 10.0.0.0/30, the hardware address the interface's.
InitListen ==
    /\ utilsOnShort = "formats"
    /\ frame = <<>> /\ call = NoCall /\ result = NoResult /\ cpc = "idle"
    /\ pc = "listen" /\ exc = NoExc /\ intrAt = "no" /\ now = 0
    /\ msock = "none" /\ seen_hosts = EmptyMap /\ mrx = <<>>
    /\ start_time = 0 /\ mreport = NoReport
    /\ range \in {ipv4_bytes_to_str(Ip4A), Slash(ipv4_bytes_to_str(Ip4Net), DecStr(30))}
    /\ hosts = HostList(ResolveNetwork(range))
    /\ tx_mac_address = default_mac_address
    /\ sent = <<>> /\ ssock = "none" /\ progress = <<>> /\ confirmed = "yes"
    /\ should_stop = FALSE /\ responses = <<>> /\ tpc = "none" /\ texc = NoExc
    /\ lsock = "none" /\ lq = <<>> /\ lrx = <<>> /\ arrivals = 0
    /\ stop_result = NotReturned

NextListen ==
    \/ ListenStart \/ EnterTry
    \/ Transmit \/ SendFails \/ Sleep \/ StopSet \/ StopJoin \/ Report
    \/ Interrupt \/ ExceptStop \/ ExceptJoin
    \/ ThreadOpen \/ ThreadCheckStop \/ ThreadRecv \/ FrameArrives
    \/ SocketFinalized

\* ThreadRecv can take a step that changes the state when the thread is at
\* its recv and either a frame is queued or an empty read goes back to the
\* top of the loop; the step it then takes leaves the recv.
RecvEnabled == tpc = "recv" /\ (lq # <<>> \/ AfterEmptyRead # "recv")
RecvStep == tpc = "recv" /\ tpc' # "recv"

\* Weak fairness of ThreadRecv, written out with the two definitions above.
RecvFair == []<>(~RecvEnabled) \/ []<><<RecvStep>>_vars

\* The listener thread is scheduled fairly, and so is the main thread
\* while it is inside stop() or on its way into it from the handler.
Fairness ==
    /\ WF_vars(ThreadOpen) /\ WF_vars(ThreadCheckStop) /\ RecvFair
    /\ WF_vars(StopJoin) /\ WF_vars(ExceptStop) /\ WF_vars(ExceptJoin)

SpecFair == InitListen /\ [][NextListen]_vars /\ Fairness

----------------------------------------------------------------------------
(* The resolution of the range on its own: the prompts of probe are        *)
(* answered with any of a larger set of ranges.                            *)

Ip4D == <<10, 0, 0, 8>>
Ip6Net == <<254, 128, 0, 0, 0, 0, 0, 0, 0, 0, 0, 0, 0, 0, 0, 0>>

PrefixTexts(version) ==
    IF version = 4 THEN {DecStr(n) : n \in {29, 30, 31, 32, 33}}
    ELSE {DecStr(n) : n \in {126, 127, 128, 129}}

ResolveInputs ==
    LET v4 == {ipv4_bytes_to_str(a) : a \in {Ip4Net, Ip4A, Ip4D, Ip4B}}
        v6 == {IPv6Str(a) : a \in {Ip6Net, Ip6A}}
    IN  v4 \cup {Slash(a, n) : a \in v4, n \in PrefixTexts(4)}
           \cup v6 \cup {Slash(a, n) : a \in v6, n \in PrefixTexts(6)}
           \cup {<<"1", "0", ".", "0", ".", "0">>, <<"e", "t", "h", "0">>}

ResolvePrompt == ProbePromptOver(ResolveInputs)

NextResolve == Menu \/ ResolvePrompt

SpecResolve == InitSession /\ [][NextResolve]_vars

----------------------------------------------------------------------------
(* Claims about the sessions, checked under Spec                           *)

\* C1: once stop() has returned, the list it returned is never changed
\* again, whatever frames arrived before, during or after the call.
C1_StopResultIsFinal ==
    stop_result.returned => responses = stop_result.value

\* C1's case: stop() has returned a non-empty list while a frame that
\* arrived is still unread on the socket.
C1_Witness ==
    /\ stop_result.returned
    /\ stop_result.value # <<>>
    /\ lq # <<>>
    /\ tpc = "exited"

ListenerEnded == tpc \in {"exited", "died"}

\* C2: when Ctrl+C arrived during transmitting or collecting and probe has
\* raised KeyboardInterrupt again, the listener thread has ended and its
\* socket is no longer open.
C2_InterruptLeavesNoListener ==
    (pc = "raised" /\ exc = KeyboardInterrupt /\ intrAt \in TryPcs)
        => (ListenerEnded /\ lsock # "open")

\* C3: a frame that does not decode never ends the monitor loop (monitor is
\* left only by KeyboardInterrupt) nor the listener's loop (the thread
\* never dies of an exception).
C3_BadFrameNeverEndsLoop ==
    /\ (pc = "raised" /\ msock # "none") => exc = KeyboardInterrupt
    /\ tpc # "died"

\* C4: once the first request has been sent, the listener has opened its
\* socket.
C4_ListenerOpenBeforeFirstSend ==
    sent # <<>> => lsock # "none"

\* mrx decoded: what parse_arp_frame made of each frame the monitor received.
MonitorDecoded == [i \in 1..Len(mrx) |-> parse_arp_frame(mrx[i].frame)]

IsDecodedReply(r) == r.kind = "ok" /\ r.ARP_OPER = 2

\* C5: the map has an entry for an address exactly when a reply from it was
\* decoded; the entry's count is the number of such replies; its timestamp
\* is that of the latest of them and not below that of any earlier one.
C5_MapCountsReplies ==
    LET dec == MonitorDecoded
        replies == {i \in 1..Len(mrx) : IsDecodedReply(dec[i])}
    IN  /\ DOMAIN seen_hosts = {dec[i].ARP_SPA_PRO_ADDR : i \in replies}
        /\ \A a \in DOMAIN seen_hosts :
              LET from == {i \in replies : dec[i].ARP_SPA_PRO_ADDR = a}
                  last == CHOOSE i \in from : \A j \in from : j <= i
              IN  /\ seen_hosts[a].count = Cardinality(from)
                  /\ seen_hosts[a].last_seen = mrx[last].at
                  /\ seen_hosts[a].mac = dec[last].ARP_SHA_MAC_ADDR
                  /\ \A j \in from : mrx[j].at <= seen_hosts[a].last_seen

\* C5's case: two replies from 10.0.0.1, one entry, count 2, the later
\* timestamp.
C5_Witness ==
    /\ DOMAIN seen_hosts = {ipv4_bytes_to_str(Ip4A)}
    /\ seen_hosts[ipv4_bytes_to_str(Ip4A)].count = 2
    /\ seen_hosts[ipv4_bytes_to_str(Ip4A)].last_seen = 2
    /\ mrx[1].at = 1
    /\ Len(mrx) = 2

\* The listener's filter, on what the frame decodes to.
ListenerAccepts(r) ==
    r.kind = "ok" /\ r.ARP_OPER = 2 /\ r.ETH_DEST_MAC = tx_mac_address

RECURSIVE PairsOfAccepted(_)
PairsOfAccepted(log) ==
    IF log = <<>> THEN <<>>
    ELSE LET r == parse_arp_frame(log[Len(log)])
             before == PairsOfAccepted(SubSeq(log, 1, Len(log) - 1))
         IN  IF ListenerAccepts(r)
             THEN Append(before, <<r.ARP_SPA_PRO_ADDR, r.ARP_SHA_MAC_ADDR>>)
             ELSE before

C11_SendErrorReleasesHandles ==
    (pc = "raised" /\ exc.kind = "OSError")
        => (ssock = "closed" /\ ListenerEnded /\ lsock # "open")

\* C12: a typed range that does not resolve to a network (its address is
\* not one, or the network constructor refuses it) leaves probe at its
\* first prompt, with no error, no listener and nothing sent.
C12_BadRangeIsAskedAgain ==
    (intrAt = "no" /\ range # <<>> /\ ResolveNetwork(range).kind # "ok")
        => (pc = "probe" /\ exc = NoExc /\ tpc = "none" /\ sent = <<>>)

----------------------------------------------------------------------------
(* Claims about the resolved hosts, checked under SpecResolve              *)

Resolved == pc = "confirm"

HostSet == {hosts[i] : i \in 1..Len(hosts)}

HostBits(network) == network.max_prefixlen - network.prefixlen

\* The first and the last address of the network, as text.
NetworkAddressStr(network) == AddressStr(network.version, network.network_address)
BroadcastAddressStr(network) ==
    AddressStr(network.version, AddressAt(network, Pow2(HostBits(network)) - 1))

\* Every address of the network, as text.
AddressesOf(network) ==
    {AddressStr(network.version, AddressAt(network, k)) :
        k \in 0..(Pow2(HostBits(network)) - 1)}

\* C13 as stated: the resolved hosts never contain the network address or
\* the broadcast address of the range.
C13_NeverNetworkOrBroadcast ==
    Resolved =>
        LET network == ResolveNetwork(range)
        IN  /\ NetworkAddressStr(network) \notin HostSet
            /\ BroadcastAddressStr(network) \notin HostSet

\* C13 as amended: the hosts are addresses of the network, each once, in
\* any order. Of an IPv4 network of four addresses or more they are all but
\* the network and the broadcast address; of a two-address network both
\* addresses; of a single address that address. Of 10.0.0.0/30 they are
\* 10.0.0.1 and 10.0.0.2. An IPv6 network of four addresses or more leaves
\* out its first address only.
C13_HostsOfNetwork ==
    Resolved =>
        LET network == ResolveNetwork(range)
            first == NetworkAddressStr(network)
            last == BroadcastAddressStr(network)
        IN  /\ network.kind = "ok"
            /\ Cardinality(HostSet) = Len(hosts)
            /\ HostSet \subseteq AddressesOf(network)
            /\ (network.version = 4 /\ HostBits(network) >= 2)
                  => HostSet = AddressesOf(network) \ {first, last}
            /\ (network.version = 6 /\ HostBits(network) >= 2)
                  => HostSet = AddressesOf(network) \ {first}
            /\ HostBits(network) <= 1 => HostSet = AddressesOf(network)
            /\ range = Slash(ipv4_bytes_to_str(Ip4Net), DecStr(30))
                  => HostSet = {ipv4_bytes_to_str(Ip4A), ipv4_bytes_to_str(Ip4C)}

\* C13's case: 10.0.0.0/30 was resolved and shuffled into 10.0.0.2, 10.0.0.1.
C13_Witness ==
    /\ Resolved
    /\ range = Slash(ipv4_bytes_to_str(Ip4Net), DecStr(30))
    /\ hosts = <<ipv4_bytes_to_str(Ip4C), ipv4_bytes_to_str(Ip4A)>>

----------------------------------------------------------------------------
(* Further claims about the sessions, checked under Spec and SpecFair      *)

\* C14: the monitor, once it is in its loop, is left only by the user's
\* interrupt, and then its socket is closed and it has printed the whole
\* map: the number of entries, the seconds since the start, and a row with
\* the hardware address and the count of every entry.
C14_MonitorEndsByInterruptWithReport ==
    (pc = "raised" /\ msock # "none" /\ intrAt # "mon_start") =>
        /\ exc = KeyboardInterrupt
        /\ msock = "closed"
        /\ mreport.printed
        /\ mreport.hosts = Cardinality(DOMAIN seen_hosts)
        /\ mreport.seconds = now - start_time
        /\ DOMAIN mreport.rows = DOMAIN seen_hosts
        /\ \A a \in DOMAIN seen_hosts :
              /\ mreport.rows[a].mac = seen_hosts[a].mac
              /\ mreport.rows[a].count = seen_hosts[a].count

\* C15: in a session without interrupt the listener is started before
\* anything is sent; the timeout wait, the stop signal and the report come
\* only when every target has been sent to; the report comes only when the
\* stop signal is set, the thread has ended and stop() has returned the
\* list as it stands.
C15_PhasesInOrder ==
    intrAt = "no" =>
        /\ sent # <<>> => tpc # "none"
        /\ pc \in {"sleep", "stop", "join", "report", "done"} => Len(sent) = Len(hosts)
        /\ should_stop => (Len(sent) = Len(hosts) /\ pc \in {"join", "report", "done"})
        /\ stop_result.returned => should_stop
        /\ pc \in {"report", "done"} =>
              /\ should_stop
              /\ ListenerEnded
              /\ stop_result.returned
              /\ stop_result.value = responses

\* C15's case: a session of two targets ran to its end without interrupt
\* and reported a reply.
C15_Witness ==
    /\ intrAt = "no"
    /\ pc = "done"
    /\ Len(hosts) = 2 /\ Len(sent) = 2
    /\ stop_result.value # <<>>

\* C16: in a session without interrupt and without a failing send, once the
\* transmission is confirmed probe does not end with an error; the k-th
\* frame sent is an IPv4 request for the k-th host from the chosen hardware
\* address and 0.0.0.0; the k-th progress report is k of the total; when the
\* send loop is over every host has been sent to.
C16_OneRequestPerTarget ==
    (intrAt = "no" /\ confirmed = "yes" /\ exc.kind # "OSError") =>
        /\ pc # "raised"
        /\ Len(sent) <= Len(hosts)
        /\ \A k \in 1..Len(sent) :
              LET r == parse_arp_frame(sent[k])
              IN  /\ r.kind = "ok"
                  /\ r.ARP_OPER = 1 /\ r.ARP_PTYPE = 2048
                  /\ r.ARP_TPA_PRO_ADDR = hosts[k]
                  /\ r.ARP_SPA_PRO_ADDR = ipv4_bytes_to_str(Ip4Zero)
                  /\ r.ARP_SHA_MAC_ADDR = tx_mac_address
                  /\ r.ETH_SRC_MAC = tx_mac_address
        /\ \A k \in 1..Len(progress) : progress[k] = <<k, Len(hosts)>>
        /\ pc \in {"sleep", "stop", "join", "report", "done"} => Len(sent) = Len(hosts)

\* C17: once the stop signal is set, the listener thread ends and stop()
\* returns, whether or not frames are waiting on the socket.
C17_StopEndsListener ==
    should_stop ~> (ListenerEnded /\ stop_result.returned)

\* C17's case: stop() has returned after a listening in which no frame ever
\* arrived, every read having come back empty.
C17_Witness ==
    /\ stop_result.returned
    /\ tpc = "exited"
    /\ arrivals = 0
    /\ should_stop

----------------------------------------------------------------------------
(* A further claim about the codec, checked under SpecCodec                *)

\* C18: a decoded frame has hardware type 1 and hardware length 6, and
\* either protocol type 0x0800 with family 4, width 4 and protocol length 4,
\* or protocol type 0x86DD with family 6, width 16 and protocol length 16;
\* these are the fields the frame carries on the wire.
C18_SuccessFieldsAgree ==
    (cpc = "done" /\ result.kind = "ok") =>
        /\ result.ARP_HTYPE = 1 /\ result.ARP_HLEN = 6
        /\ \/ /\ result.ARP_PTYPE = 2048 /\ result.IP_PRO_VER = 4
              /\ result.IP_ADDR_LEN = 4 /\ result.ARP_PLEN = 4
           \/ /\ result.ARP_PTYPE = 34525 /\ result.IP_PRO_VER = 6
              /\ result.IP_ADDR_LEN = 16 /\ result.ARP_PLEN = 16
        /\ WireHType(frame) = result.ARP_HTYPE /\ WireHLen(frame) = result.ARP_HLEN
        /\ WirePType(frame) = result.ARP_PTYPE /\ WirePLen(frame) = result.ARP_PLEN

\* C18's case: an IPv6 frame from the wire was decoded.
C18_Witness ==
    /\ FromWire
    /\ result.kind = "ok"
    /\ result.IP_PRO_VER = 6
    /\ Len(frame) = 66

----------------------------------------------------------------------------
(* Further claims about the sessions, checked under Spec                   *)

\* C19: a frame the monitor receives changes the map only if it decodes as
\* a reply, and then only the entry of its sender protocol address: every
\* other entry stays as it was and no other entry appears.
C19_FrameChangesOnlySenderEntry ==
    [][Len(mrx') = Len(mrx) + 1 =>
          LET r == parse_arp_frame(mrx'[Len(mrx')].frame)
          IN  IF IsDecodedReply(r)
              THEN /\ DOMAIN seen_hosts' = DOMAIN seen_hosts \cup {r.ARP_SPA_PRO_ADDR}
                   /\ \A a \in DOMAIN seen_hosts :
                         a # r.ARP_SPA_PRO_ADDR => seen_hosts'[a] = seen_hosts[a]
              ELSE seen_hosts' = seen_hosts]_vars

\* C19's case: a reply from 192.168.1.254 was received when the map held
\* the entry of 10.0.0.1, and the map now holds both.
C19_Witness ==
    /\ Len(mrx) = 2
    /\ DOMAIN seen_hosts = {ipv4_bytes_to_str(Ip4A), ipv4_bytes_to_str(Ip4B)}
    /\ parse_arp_frame(mrx[2].frame).ARP_SPA_PRO_ADDR = ipv4_bytes_to_str(Ip4B)

\* C20: after the answer no to the confirmation there is no listener, no
\* socket and nothing sent; a listener or a sent frame means the answer
\* was yes.
C20_NothingWithoutConfirmation ==
    /\ confirmed = "no" =>
          /\ tpc = "none" /\ lsock = "none"
          /\ sent = <<>> /\ ssock = "none"
          /\ pc \in {"menu_again", "raised"}
    /\ (tpc # "none" \/ sent # <<>> \/ ssock # "none") => confirmed = "yes"

\* C20's case: the hosts were resolved, the answer was no, probe has
\* returned to the menu.
C20_Witness ==
    /\ confirmed = "no"
    /\ pc = "menu_again"
    /\ Len(hosts) = 2

====
